---------------------------- MODULE Spec2Model ----------------------------
(***************************************************************************)
(* Model of package runner (go-httplib): HTTPServerRunner.                 *)
(*                                                                         *)
(* The runner owns one *http.Server.  Run derives a completion context     *)
(* with context.WithoutCancel and signal.NotifyContext and starts          *)
(* Server.ListenAndServe on a goroutine guarded by recover; Shutdown calls *)
(* Server.Shutdown with or without a deadline.                             *)
(*                                                                         *)
(* The steps of net/http.Server (ListenAndServe, Serve, Shutdown), of      *)
(* os/signal.NotifyContext and of package context are modelled at the      *)
(* granularity at which goroutines interleave on them, so that the calls   *)
(* made by Run and Shutdown are checked with the behaviour they have.      *)
(***************************************************************************)
EXTENDS Integers, Sequences, FiniteSets, TLC

\* ------------------------------------------------------------------ bounds
MaxRuns == 1
MaxConns == 2
MaxChunks == 2
MaxShutdowns == 1
MaxStopCalls == 2
\* the most bytes a body renderer hands to one Write
MaxBody == 2
\* the most Write calls of a body renderer
MaxWrites == 2

RunIds == 1..MaxRuns
ConnIds == 1..MaxConns

\* ------------------------------------------------------------- value sets
Nil == "nil"
\* http.ErrServerClosed
ErrServerClosed == "http: Server closed"
\* error of net.Listen when the address is taken
ErrBind == "bind: address already in use"
\* a non-temporary error of Listener.Accept
ErrAccept == "accept error"
\* context.DeadlineExceeded
DeadlineExceeded == "context deadline exceeded"
\* context.Canceled
Canceled == "context canceled"
\* the signals Run registers for
Signals == {"SIGTERM", "os.Interrupt"}
\* the timeouts Shutdown is called with: negative, zero, positive
Timeouts == {-1, 0, 1}
\* what a callback given to the constructor may be: absent, or a function of
\* the caller (which, when called, returns or panics)
SinkInputs == {Nil, "func"}
\* the value a panicking error sink raises: the tests' sink does panic(err)
PanicOf(err) == "onError panicked: " \o err
\* the run-time panic of calling a nil function value
NilCall == "invalid memory address or nil pointer dereference"
\* the value net/http raises inside Serve (a nil BaseContext result)
ServePanic == "http: Server.BaseContext returned a nil context"

VARIABLES
  r,            \* the *httpServerRunner built by the constructor, or NoRunner
  ctorPanic,    \* the value NewHTTPServerRunner panicked with, or Nil
  proc,         \* the process: "alive", or "crashed" (a panic left a goroutine)
  parentDone,   \* whether the context handed to Run is cancelled / past its deadline
  nRuns,        \* number of Run calls made
  ctxParent,    \* per Run: what the completion context was derived from
  ctxDone,      \* per Run: why the completion context is done, or "no"
  sigReg,       \* per Run: whether the signal registration is in place
  sigCh,        \* per Run: a signal waits in NotifyContext's channel (capacity 1)
  stopCalls,    \* per Run: number of calls of the returned stop function
  gpc,          \* per Run: where the goroutine started by Run stands
  srvErr,       \* per Run: the error ListenAndServe returned, or Nil
  rvr,          \* per Run: the value of the panic raised in the goroutine, or Nil
  lnOpen,       \* per Run: the listening socket opened by net.Listen is open
  tracked,      \* per Run: the listener is in Server.listeners
  errCalls,     \* per Run: the calls r.onError received
  panicCalls,   \* per Run: the calls r.onPanic received
  inShutdown,   \* Server.inShutdown
  sd,           \* the Shutdown call in progress
  sdRet,        \* what the Shutdown calls made so far returned, in order
  conn,         \* the client connections
  rcall,        \* the arguments of the last Render call, or NoCall
  rres          \* what the last Render call did and returned

vars == <<r, ctorPanic, proc, parentDone, nRuns, ctxParent, ctxDone, sigReg,
          sigCh, stopCalls, gpc, srvErr, rvr, lnOpen, tracked, errCalls, panicCalls,
          inShutdown, sd, sdRet, conn, rcall, rres>>

ctorVars == <<r, ctorPanic>>
sigVars == <<ctxParent, ctxDone, sigReg, sigCh, stopCalls>>
goVars == <<gpc, srvErr, rvr, errCalls, panicCalls>>
srvVars == <<lnOpen, tracked, inShutdown, conn>>
sdVars == <<sd, sdRet>>
renderVars == <<rcall, rres>>
runnerVars == <<ctorVars, proc, parentDone, nRuns, sigVars, goVars, srvVars, sdVars>>

\* The values of response.go.

\* An error value: the messages of its leaves in order, and whether it is the
\* value errors.Join built.
NoErr == [joined |-> FALSE, msgs |-> <<>>]
Leaf(m) == [joined |-> FALSE, msgs |-> <<m>>]

\* errors.Join(a, b): nil values are dropped; nil if none is left, else a new
\* error that wraps the others in order.
Join(a, b) ==
  IF a.msgs \o b.msgs = <<>> THEN NoErr
  ELSE [joined |-> TRUE, msgs |-> a.msgs \o b.msgs]

ErrHeader == Leaf("header error")
ErrBody == Leaf("body error")
ErrWriter == Leaf("response writer error")
ErrCause == Leaf("cause")

\* The exported Render functions.
BodyFns == {"RenderOKWithBody", "RenderCreatedWithBody", "RenderBadRequestWithBody"}
CauseFns == {"RenderNoContentForUnauthorized", "RenderBadRequest",
             "RenderBadRequestWithBody", "RenderUnauthorized", "RenderForbidden",
             "RenderNotFound", "RenderConflict", "RenderInternalServerError"}
RenderFns == BodyFns \cup CauseFns \cup
             {"RenderOK", "RenderCreated", "RenderNoContent", "RenderRedirect"}

\* The http.Status constant each function passes on.
StatusOf(fn) ==
  CASE fn \in {"RenderOK", "RenderOKWithBody"} -> 200
    [] fn \in {"RenderCreated", "RenderCreatedWithBody"} -> 201
    [] fn \in {"RenderNoContent", "RenderNoContentForUnauthorized"} -> 204
    [] fn = "RenderRedirect" -> 307
    [] fn \in {"RenderBadRequest", "RenderBadRequestWithBody"} -> 400
    [] fn = "RenderUnauthorized" -> 401
    [] fn = "RenderForbidden" -> 403
    [] fn = "RenderNotFound" -> 404
    [] fn = "RenderConflict" -> 409
    [] fn = "RenderInternalServerError" -> 500

\* A ResponseBodyRenderer: the error of its RenderHeader, the sizes of the
\* Write calls its RenderBody makes, and the error RenderBody returns when
\* every Write succeeded (it returns the error of a failed Write).
NoRenderer == [present |-> FALSE, headerErr |-> NoErr, writes |-> <<>>, bodyErr |-> NoErr]
WriteSeqs == UNION {[1..n -> 1..MaxBody] : n \in 0..MaxWrites}
Renderers ==
  [present : {TRUE}, headerErr : {NoErr, ErrHeader}, writes : WriteSeqs,
   bodyErr : {NoErr, ErrBody}]

\* What ctx.Value(contextKeyResponseLog) holds: nothing, a nil *ResponseLog,
\* or a pointer to a ResponseLog.
Holders == {"absent", "nilptr", "ptr"}

\* ResponseLog; skip is the argument of NewHandlerInfo (0 in the zero value).
ZeroLog == [StatusCode |-> 0, ResponseSize |-> 0, Error |-> NoErr, skip |-> 0]
StaleLog == [StatusCode |-> 500, ResponseSize |-> 1, Error |-> Leaf("stale"), skip |-> 3]

NoCall == [fn |-> "none", holder |-> "absent", before |-> ZeroLog,
           renderer |-> NoRenderer, wcap |-> 0, cause |-> NoErr]
NoResult == [ev |-> <<>>, hdrRet |-> NoErr, bodyRet |-> NoErr, status |-> 0,
             written |-> 0, log |-> ZeroLog, holderAfter |-> "absent",
             err |-> NoErr]

NoRunner == [server |-> Nil, onError |-> Nil, onPanic |-> Nil]
FreeConn == [st |-> "free", ln |-> 0, total |-> 0, sent |-> 0, atSd |-> FALSE]
IdleSd == [pc |-> "idle", timeout |-> 0, polled |-> FALSE]

Init ==
  /\ r = NoRunner
  /\ ctorPanic = Nil
  /\ proc = "alive"
  /\ parentDone = FALSE
  /\ nRuns = 0
  /\ ctxParent = [i \in RunIds |-> Nil]
  /\ ctxDone = [i \in RunIds |-> "no"]
  /\ sigReg = [i \in RunIds |-> FALSE]
  /\ sigCh = [i \in RunIds |-> FALSE]
  /\ stopCalls = [i \in RunIds |-> 0]
  /\ gpc = [i \in RunIds |-> "none"]
  /\ srvErr = [i \in RunIds |-> Nil]
  /\ rvr = [i \in RunIds |-> Nil]
  /\ lnOpen = [i \in RunIds |-> FALSE]
  /\ tracked = [i \in RunIds |-> FALSE]
  /\ errCalls = [i \in RunIds |-> <<>>]
  /\ panicCalls = [i \in RunIds |-> <<>>]
  /\ inShutdown = FALSE
  /\ sd = IdleSd
  /\ sdRet = <<>>
  /\ conn = [c \in ConnIds |-> FreeConn]
  /\ rcall = NoCall
  /\ rres = NoResult

\* ------------------------------------------------------------ constructor

\* A constructor that stores the callbacks as they are given.
NormalizeNothing(f) == f

\* if onError == nil { onError = func(ctx, err) {} }, and the same for onPanic
Normalize(f) == IF f = Nil THEN "noop" ELSE f

\* A constructor without the test of server.
NewRunnerUnchecked(server, onError, onPanic) ==
  /\ proc = "alive" /\ r = NoRunner /\ ctorPanic = Nil
  /\ r' = [server |-> server,
           onError |-> Normalize(onError),
           onPanic |-> Normalize(onPanic)]
  /\ UNCHANGED <<renderVars, ctorPanic, proc, parentDone, nRuns, sigVars, goVars, srvVars,
                 sdVars>>

\* func NewHTTPServerRunner(server, onError, onPanic) HTTPServerRunner:
\* if server == nil { panic("server is nil") }
NewHTTPServerRunner(server, onError, onPanic) ==
  /\ proc = "alive" /\ r = NoRunner /\ ctorPanic = Nil
  /\ IF server = Nil
       THEN /\ ctorPanic' = "server is nil"
            /\ r' = r
       ELSE /\ r' = [server |-> server,
                     onError |-> Normalize(onError),
                     onPanic |-> Normalize(onPanic)]
            /\ ctorPanic' = ctorPanic
  /\ UNCHANGED <<renderVars, proc, parentDone, nRuns, sigVars, goVars, srvVars, sdVars>>


\* ------------------------------------------------- Run: context and signals

\* Run deriving the completion context from the caller's context as it is.
WithCancelOfParent(parent) == parent

\* context.WithoutCancel(ctx): a context that is never cancelled through ctx.
\* The result names what the derived context is cancelled through.
WithoutCancel(parent) == "none"

\* signal.NotifyContext(parent, SIGTERM, os.Interrupt): a child of parent,
\* done from the start when parent is done.
NotifyContextDone(parent) ==
  IF parent = "caller" /\ parentDone THEN "parent" ELSE "no"

\* A Run that calls ListenAndServe itself up to the bound listener before it
\* returns.
RunAfterListen ==
  /\ proc = "alive" /\ r # NoRunner /\ nRuns < MaxRuns
  /\ ~inShutdown /\ \A j \in RunIds : ~lnOpen[j]
  /\ LET i == nRuns + 1
         p == WithoutCancel("caller")
     IN /\ nRuns' = i
        /\ ctxParent' = [ctxParent EXCEPT ![i] = p]
        /\ ctxDone' = [ctxDone EXCEPT ![i] = NotifyContextDone(p)]
        /\ sigReg' = [sigReg EXCEPT ![i] = TRUE]
        /\ gpc' = [gpc EXCEPT ![i] = "serve"]
        /\ lnOpen' = [lnOpen EXCEPT ![i] = TRUE]
  /\ UNCHANGED <<renderVars, ctorVars, proc, parentDone, sigCh, stopCalls, srvErr, rvr, errCalls,
                 panicCalls, tracked, inShutdown, conn, sdVars>>

\* func (r *httpServerRunner) Run(ctx) (context.Context, func())
Run ==
  /\ proc = "alive" /\ r # NoRunner /\ nRuns < MaxRuns
  /\ LET i == nRuns + 1
         p == WithoutCancel("caller")
     IN /\ nRuns' = i
        /\ ctxParent' = [ctxParent EXCEPT ![i] = p]
        /\ ctxDone' = [ctxDone EXCEPT ![i] = NotifyContextDone(p)]
        /\ sigReg' = [sigReg EXCEPT ![i] = TRUE]
        /\ gpc' = [gpc EXCEPT ![i] = "start"]
  /\ UNCHANGED <<renderVars, ctorVars, proc, parentDone, sigCh, stopCalls, srvErr, rvr, errCalls,
                 panicCalls, srvVars, sdVars>>

\* The caller's context is cancelled or its deadline passes: every context
\* derived from it without WithoutCancel becomes done.
CancelParent ==
  /\ proc = "alive" /\ ~parentDone
  /\ parentDone' = TRUE
  /\ ctxDone' = [i \in RunIds |->
                   IF ctxParent[i] = "caller" /\ ctxDone[i] = "no"
                     THEN "parent" ELSE ctxDone[i]]
  /\ UNCHANGED <<renderVars, ctorVars, proc, nRuns, ctxParent, sigReg, sigCh, stopCalls,
                 goVars, srvVars, sdVars>>

\* The process receives SIGTERM or os.Interrupt while a registration is in
\* place: the signal is sent, without blocking, to every registered channel
\* (capacity 1).  With no registration the signal never reaches the program:
\* its default disposition ends the process, and the behaviour with it.
Signal(s) ==
  /\ proc = "alive"
  /\ \E i \in RunIds : sigReg[i]
  /\ sigCh' = [i \in RunIds |-> sigCh[i] \/ sigReg[i]]
  /\ UNCHANGED <<renderVars, ctorVars, proc, parentDone, nRuns, ctxParent, ctxDone, sigReg,
                 stopCalls, goVars, srvVars, sdVars>>

\* A watcher that releases the signal registration once the signal came.
WatchUnregisters(i) ==
  /\ proc = "alive" /\ i <= nRuns
  /\ sigCh[i] /\ ctxDone[i] = "no"
  /\ ctxDone' = [ctxDone EXCEPT ![i] = "signal"]
  /\ sigCh' = [sigCh EXCEPT ![i] = FALSE]
  /\ sigReg' = [sigReg EXCEPT ![i] = FALSE]
  /\ UNCHANGED <<renderVars, ctorVars, proc, parentDone, nRuns, ctxParent,
                 stopCalls, goVars, srvVars, sdVars>>

\* A watcher that takes the signal off the channel and cancels nothing.
WatchDropsSignal(i) ==
  /\ proc = "alive" /\ i <= nRuns
  /\ sigCh[i] /\ ctxDone[i] = "no"
  /\ sigCh' = [sigCh EXCEPT ![i] = FALSE]
  /\ UNCHANGED <<renderVars, ctorVars, proc, parentDone, nRuns, ctxParent, ctxDone, sigReg,
                 stopCalls, goVars, srvVars, sdVars>>

\* A watcher that, on the signal, also puts the server in shutdown.
WatchShutsDown(i) ==
  /\ proc = "alive" /\ i <= nRuns
  /\ sigCh[i] /\ ctxDone[i] = "no"
  /\ ctxDone' = [ctxDone EXCEPT ![i] = "signal"]
  /\ sigCh' = [sigCh EXCEPT ![i] = FALSE]
  /\ inShutdown' = TRUE
  /\ UNCHANGED <<renderVars, ctorVars, proc, parentDone, nRuns, ctxParent, sigReg,
                 stopCalls, goVars, lnOpen, tracked, conn, sdVars>>

\* NotifyContext's goroutine: select { case <-c.ch: c.cancel(); case <-c.Done(): }
Watch(i) ==
  /\ proc = "alive" /\ i <= nRuns
  /\ sigCh[i] /\ ctxDone[i] = "no"
  /\ ctxDone' = [ctxDone EXCEPT ![i] = "signal"]
  /\ sigCh' = [sigCh EXCEPT ![i] = FALSE]
  /\ UNCHANGED <<renderVars, ctorVars, proc, parentDone, nRuns, ctxParent, sigReg,
                 stopCalls, goVars, srvVars, sdVars>>

\* A stop function whose cancellation replaces the cause of a context that
\* is already done.
stopOverwrites(i) ==
  /\ proc = "alive" /\ i <= nRuns /\ stopCalls[i] < MaxStopCalls
  /\ ctxDone' = [ctxDone EXCEPT ![i] = "stop"]
  /\ sigReg' = [sigReg EXCEPT ![i] = FALSE]
  /\ stopCalls' = [stopCalls EXCEPT ![i] = @ + 1]
  /\ UNCHANGED <<renderVars, ctorVars, proc, parentDone, nRuns, ctxParent, sigCh,
                 goVars, srvVars, sdVars>>

\* A stop function that can be called once: a second call panics in the
\* caller's goroutine and ends the process.
stopOnceOnly(i) ==
  /\ proc = "alive" /\ i <= nRuns /\ stopCalls[i] < MaxStopCalls
  /\ ctxDone' = [ctxDone EXCEPT ![i] = IF @ = "no" THEN "stop" ELSE @]
  /\ sigReg' = [sigReg EXCEPT ![i] = FALSE]
  /\ stopCalls' = [stopCalls EXCEPT ![i] = @ + 1]
  /\ proc' = IF stopCalls[i] > 0 THEN "crashed" ELSE proc
  /\ UNCHANGED <<renderVars, ctorVars, parentDone, nRuns, ctxParent, sigCh,
                 goVars, srvVars, sdVars>>

\* A stop function that is signal.Stop(c.ch) alone.
stopOnlyUnregisters(i) ==
  /\ proc = "alive" /\ i <= nRuns /\ stopCalls[i] < MaxStopCalls
  /\ sigReg' = [sigReg EXCEPT ![i] = FALSE]
  /\ stopCalls' = [stopCalls EXCEPT ![i] = @ + 1]
  /\ UNCHANGED <<renderVars, ctorVars, proc, parentDone, nRuns, ctxParent, ctxDone, sigCh,
                 goVars, srvVars, sdVars>>

\* The stop function Run returns: signalCtx.stop is c.cancel(); signal.Stop(c.ch)
stop(i) ==
  /\ proc = "alive" /\ i <= nRuns /\ stopCalls[i] < MaxStopCalls
  /\ ctxDone' = [ctxDone EXCEPT ![i] = IF @ = "no" THEN "stop" ELSE @]
  /\ sigReg' = [sigReg EXCEPT ![i] = FALSE]
  /\ stopCalls' = [stopCalls EXCEPT ![i] = @ + 1]
  /\ UNCHANGED <<renderVars, ctorVars, proc, parentDone, nRuns, ctxParent, sigCh,
                 goVars, srvVars, sdVars>>

\* ------------------------------------------- the goroutine started by Run

\* A server whose ListenAndServe and Serve never find it shutting down.
ShuttingNever == FALSE

\* Server.shuttingDown(): srv.inShutdown.Load(); nothing resets the flag.
Shutting == inShutdown

\* Closing a listening socket resets the connections waiting in its backlog.
CloseBacklog(cs, L) ==
  [c \in ConnIds |->
     IF cs[c].st = "backlog" /\ cs[c].ln \in L
       THEN [cs[c] EXCEPT !.st = "reset"] ELSE cs[c]]

\* The goroutine dropping every error of ListenAndServe.
AfterServeSilent(err) == "done"

\* The goroutine without the errors.Is(srvErr, http.ErrServerClosed) test.
AfterServeUnfiltered(err) == IF err # Nil THEN "onError" ELSE "done"

\* if srvErr := r.server.ListenAndServe(); srvErr != nil {
\*     if !errors.Is(srvErr, http.ErrServerClosed) { r.onError(ctx, srvErr) } }
\* The goroutine's position after ListenAndServe returned srvErr.
AfterServe(err) ==
  IF err # Nil /\ err # ErrServerClosed THEN "onError" ELSE "done"

\* A ListenAndServe that goes on to listen without looking at the shutdown
\* flag.
LASEnterUnchecked(i) ==
  /\ proc = "alive" /\ gpc[i] = "start"
  /\ gpc' = [gpc EXCEPT ![i] = "listen"]
  /\ UNCHANGED <<renderVars, ctorVars, proc, parentDone, nRuns, sigVars, srvErr, rvr,
                 errCalls, panicCalls, srvVars, sdVars>>

\* ListenAndServe, entry: if s.shuttingDown() { return ErrServerClosed }
LASEnter(i) ==
  /\ proc = "alive" /\ gpc[i] = "start"
  /\ IF Shutting
       THEN /\ gpc' = [gpc EXCEPT ![i] = AfterServe(ErrServerClosed)]
            /\ srvErr' = [srvErr EXCEPT ![i] = ErrServerClosed]
       ELSE /\ gpc' = [gpc EXCEPT ![i] = "listen"]
            /\ srvErr' = srvErr
  /\ UNCHANGED <<renderVars, ctorVars, proc, parentDone, nRuns, sigVars, rvr, errCalls,
                 panicCalls, srvVars, sdVars>>

\* ListenAndServe: ln, err := net.Listen("tcp", addr); if err != nil { return err }
\* The address is taken when a listener of this server holds it, and may be
\* taken by another process.
LASListen(i, taken) ==
  /\ proc = "alive" /\ gpc[i] = "listen"
  /\ IF taken \/ (\E j \in RunIds : lnOpen[j])
       THEN /\ gpc' = [gpc EXCEPT ![i] = AfterServe(ErrBind)]
            /\ srvErr' = [srvErr EXCEPT ![i] = ErrBind]
            /\ lnOpen' = lnOpen
       ELSE /\ gpc' = [gpc EXCEPT ![i] = "serve"]
            /\ srvErr' = srvErr
            /\ lnOpen' = [lnOpen EXCEPT ![i] = TRUE]
  /\ UNCHANGED <<renderVars, ctorVars, proc, parentDone, nRuns, sigVars, rvr, errCalls,
                 panicCalls, tracked, inShutdown, conn, sdVars>>

\* Serve, before the accept loop: defer l.Close();
\* if !s.trackListener(&l, true) { return ErrServerClosed }; defer untrack;
\* the base context (a nil result of Server.BaseContext panics).
LASServe(i, hookPanics) ==
  /\ proc = "alive" /\ gpc[i] = "serve"
  /\ IF Shutting
       THEN /\ gpc' = [gpc EXCEPT ![i] = AfterServe(ErrServerClosed)]
            /\ srvErr' = [srvErr EXCEPT ![i] = ErrServerClosed]
            /\ rvr' = rvr
            /\ lnOpen' = [lnOpen EXCEPT ![i] = FALSE]
            /\ conn' = CloseBacklog(conn, {i})
            /\ tracked' = tracked
       ELSE IF hookPanics
         THEN /\ gpc' = [gpc EXCEPT ![i] = "recover"]
              /\ rvr' = [rvr EXCEPT ![i] = ServePanic]
              /\ srvErr' = srvErr
              /\ lnOpen' = [lnOpen EXCEPT ![i] = FALSE]
              /\ conn' = CloseBacklog(conn, {i})
              /\ tracked' = tracked
         ELSE /\ gpc' = [gpc EXCEPT ![i] = "accept"]
              /\ UNCHANGED <<srvErr, rvr>>
              /\ tracked' = [tracked EXCEPT ![i] = TRUE]
              /\ UNCHANGED <<lnOpen, conn>>
  /\ UNCHANGED <<renderVars, ctorVars, proc, parentDone, nRuns, sigVars, errCalls,
                 panicCalls, inShutdown, sdVars>>

\* Serve, accept loop: rw, err := l.Accept() succeeded;
\* c := s.newConn(rw); c.setState(c.rwc, StateNew); go c.serve(connCtx)
LASAccept(i, c) ==
  /\ proc = "alive" /\ gpc[i] = "accept" /\ lnOpen[i]
  /\ conn[c].st = "backlog" /\ conn[c].ln = i
  /\ conn' = [conn EXCEPT ![c].st = "new"]
  /\ UNCHANGED <<renderVars, ctorVars, proc, parentDone, nRuns, sigVars, goVars, lnOpen,
                 tracked, inShutdown, sdVars>>

\* Serve, accept loop: Accept failed, because Shutdown closed the listener or
\* (fails) with another non-temporary error:
\* if s.shuttingDown() { return ErrServerClosed }; return err
\* The deferred calls untrack and close the listener.
LASAcceptErr(i, fails) ==
  /\ proc = "alive" /\ gpc[i] = "accept"
  /\ ~lnOpen[i] \/ fails
  /\ LET e == IF Shutting THEN ErrServerClosed ELSE ErrAccept
     IN /\ gpc' = [gpc EXCEPT ![i] = AfterServe(e)]
        /\ srvErr' = [srvErr EXCEPT ![i] = e]
  /\ tracked' = [tracked EXCEPT ![i] = FALSE]
  /\ lnOpen' = [lnOpen EXCEPT ![i] = FALSE]
  /\ conn' = CloseBacklog(conn, {i})
  /\ UNCHANGED <<renderVars, ctorVars, proc, parentDone, nRuns, sigVars, rvr, errCalls,
                 panicCalls, inShutdown, sdVars>>

\* A goroutine that reports the error of ListenAndServe twice.
CallOnErrorTwice(i, panics) ==
  /\ proc = "alive" /\ gpc[i] = "onError"
  /\ ~panics
  /\ errCalls' = [errCalls EXCEPT
                    ![i] = @ \o << [ctx |-> i, err |-> srvErr[i]],
                                   [ctx |-> i, err |-> srvErr[i]] >>]
  /\ gpc' = [gpc EXCEPT ![i] = "done"]
  /\ UNCHANGED <<renderVars, ctorVars, proc, parentDone, nRuns, sigVars, srvErr, rvr,
                 panicCalls, srvVars, sdVars>>

\* r.onError(ctx, srvErr): ctx is the completion context of this Run.  The
\* no-op returns; a function given by the caller returns or panics; calling a
\* nil function is a run-time panic.
CallOnError(i, panics) ==
  /\ proc = "alive" /\ gpc[i] = "onError"
  /\ panics => r.onError = "func"
  /\ IF r.onError = Nil
       THEN /\ gpc' = [gpc EXCEPT ![i] = "recover"]
            /\ rvr' = [rvr EXCEPT ![i] = NilCall]
            /\ errCalls' = errCalls
       ELSE /\ errCalls' = [errCalls EXCEPT
                              ![i] = Append(@, [ctx |-> i, err |-> srvErr[i]])]
            /\ IF panics
                 THEN /\ gpc' = [gpc EXCEPT ![i] = "recover"]
                      /\ rvr' = [rvr EXCEPT ![i] = PanicOf(srvErr[i])]
                 ELSE /\ gpc' = [gpc EXCEPT ![i] = "done"]
                      /\ rvr' = rvr
  /\ UNCHANGED <<renderVars, ctorVars, proc, parentDone, nRuns, sigVars, srvErr, panicCalls,
                 srvVars, sdVars>>

\* The deferred function of the goroutine without its recover: the panic
\* leaves the goroutine and ends the process.
RecoverAbsent(i, panics) ==
  /\ proc = "alive" /\ gpc[i] = "recover"
  /\ ~panics
  /\ gpc' = [gpc EXCEPT ![i] = "crashed"]
  /\ proc' = "crashed"
  /\ UNCHANGED <<renderVars, ctorVars, parentDone, nRuns, sigVars, srvErr, rvr, errCalls,
                 panicCalls, srvVars, sdVars>>

\* The deferred function handing r.onPanic the error ListenAndServe returned
\* in place of the recovered value.
RecoverWrongValue(i, panics) ==
  /\ proc = "alive" /\ gpc[i] = "recover"
  /\ panics => r.onPanic = "func"
  /\ panicCalls' = [panicCalls EXCEPT
                      ![i] = Append(@, [ctx |-> i, rvr |-> srvErr[i]])]
  /\ gpc' = [gpc EXCEPT ![i] = IF panics THEN "crashed" ELSE "done"]
  /\ proc' = IF panics THEN "crashed" ELSE proc
  /\ UNCHANGED <<renderVars, ctorVars, parentDone, nRuns, sigVars, srvErr, rvr, errCalls,
                 srvVars, sdVars>>

\* A deferred function that guards r.onPanic too: a panic of r.onPanic is
\* recovered and handed to r.onPanic again.
RecoverGuardsSink(i, panics) ==
  /\ proc = "alive" /\ gpc[i] = "recover"
  /\ panics => r.onPanic = "func"
  /\ panicCalls' = [panicCalls EXCEPT
                      ![i] = IF panics
                               THEN @ \o << [ctx |-> i, rvr |-> rvr[i]],
                                            [ctx |-> i, rvr |-> "onPanic panicked"] >>
                               ELSE Append(@, [ctx |-> i, rvr |-> rvr[i]])]
  /\ gpc' = [gpc EXCEPT ![i] = "done"]
  /\ UNCHANGED <<renderVars, ctorVars, proc, parentDone, nRuns, sigVars, srvErr, rvr,
                 errCalls, srvVars, sdVars>>

\* defer func() { if rvr := recover(); rvr != nil { r.onPanic(ctx, rvr) } }()
\* A panic of r.onPanic itself (or the call of a nil r.onPanic) is raised in
\* the deferred function, where no recover is left: it ends the process.
Recover(i, panics) ==
  /\ proc = "alive" /\ gpc[i] = "recover"
  /\ panics => r.onPanic = "func"
  /\ IF r.onPanic = Nil
       THEN /\ panicCalls' = panicCalls
            /\ gpc' = [gpc EXCEPT ![i] = "crashed"]
            /\ proc' = "crashed"
       ELSE /\ panicCalls' = [panicCalls EXCEPT
                                ![i] = Append(@, [ctx |-> i, rvr |-> rvr[i]])]
            /\ gpc' = [gpc EXCEPT ![i] = IF panics THEN "crashed" ELSE "done"]
            /\ proc' = IF panics THEN "crashed" ELSE proc
  /\ UNCHANGED <<renderVars, ctorVars, parentDone, nRuns, sigVars, srvErr, rvr, errCalls,
                 srvVars, sdVars>>

\* ------------------------------------------------------------ connections

\* A client dials the server's address: the attempt reaches the backlog of
\* the listening socket that holds the address, and is refused when this
\* server holds no listening socket.  Connections are interchangeable: the
\* free one of lowest number is used.
ClientConnect(c) ==
  /\ proc = "alive" /\ conn[c].st = "free"
  /\ \A d \in ConnIds : d < c => conn[d].st # "free"
  /\ IF \E i \in RunIds : lnOpen[i]
       THEN conn' = [conn EXCEPT ![c].st = "backlog",
                                 ![c].ln = CHOOSE i \in RunIds : lnOpen[i]]
       ELSE conn' = [conn EXCEPT ![c].st = "refused"]
  /\ UNCHANGED <<renderVars, ctorVars, proc, parentDone, nRuns, sigVars, goVars, lnOpen,
                 tracked, inShutdown, sdVars>>

\* conn.serve: the request is read (StateNew -> StateActive) and its handler
\* starts; the response has n chunks, the first carrying the status line.
ConnRead(c, n) ==
  /\ proc = "alive" /\ conn[c].st = "new"
  /\ conn' = [conn EXCEPT ![c].st = "active", ![c].total = n]
  /\ UNCHANGED <<renderVars, ctorVars, proc, parentDone, nRuns, sigVars, goVars, lnOpen,
                 tracked, inShutdown, sdVars>>

\* The handler writes (and flushes) the next chunk of the response.
HandlerWrite(c) ==
  /\ proc = "alive" /\ conn[c].st = "active" /\ conn[c].sent < conn[c].total
  /\ conn' = [conn EXCEPT ![c].sent = @ + 1]
  /\ UNCHANGED <<renderVars, ctorVars, proc, parentDone, nRuns, sigVars, goVars, lnOpen,
                 tracked, inShutdown, sdVars>>

\* A conn.serve that keeps the connection for a next request although the
\* server is shutting down.
HandlerReturnKeepAlive(c) ==
  /\ proc = "alive" /\ conn[c].st = "active" /\ conn[c].sent = conn[c].total
  /\ conn' = [conn EXCEPT ![c].st = "idle"]
  /\ UNCHANGED <<renderVars, ctorVars, proc, parentDone, nRuns, sigVars, goVars, lnOpen,
                 tracked, inShutdown, sdVars>>

\* The handler returns and the response is finished.  conn.serve keeps the
\* connection (StateIdle) only while Server.doKeepAlives(), that is while
\* the server is not shutting down; otherwise it closes the connection.
HandlerReturn(c) ==
  /\ proc = "alive" /\ conn[c].st = "active" /\ conn[c].sent = conn[c].total
  /\ conn' = [conn EXCEPT ![c].st = IF Shutting THEN "closed" ELSE "idle"]
  /\ UNCHANGED <<renderVars, ctorVars, proc, parentDone, nRuns, sigVars, goVars, lnOpen,
                 tracked, inShutdown, sdVars>>

\* ---------------------------------------------------------------- Shutdown

\* A Shutdown whose context is derived from the completion context of Run.
ShutdownRootCompletion == "completion"

\* ctx := context.Background(): the root of the context Shutdown hands to
\* Server.Shutdown.
ShutdownRoot == "background"

\* Whether a context derived from root is done through root.
RootDone(root) ==
  \/ root = "caller" /\ parentDone
  \/ root = "completion" /\ \E i \in RunIds : ctxDone[i] # "no"

\* A Shutdown that gives every call a deadline, timeout 0 included.
HasDeadlineFromZero(timeout) == timeout >= 0

\* A Shutdown that never gives Server.Shutdown a deadline.
HasDeadlineNever(timeout) == FALSE

\* if timeout <= 0 { return r.server.Shutdown(context.Background()) }
\* ctx, cancel := context.WithTimeout(context.Background(), timeout)
HasDeadline(timeout) == timeout > 0

\* A Shutdown that drops the error of Server.Shutdown.
ShutdownReturnNil(err) == Nil

\* return r.server.Shutdown(ctx): the error of Server.Shutdown is the result.
ShutdownReturn(err) == err

\* A Shutdown that also cancels the completion contexts of Run.
ShutdownCancelsCtx(timeout) ==
  /\ proc = "alive" /\ r # NoRunner /\ sd.pc = "idle" /\ Len(sdRet) < MaxShutdowns
  /\ inShutdown' = TRUE
  /\ sd' = [pc |-> "closeLn", timeout |-> timeout, polled |-> FALSE]
  /\ conn' = [c \in ConnIds |->
                IF conn[c].st = "active" THEN [conn[c] EXCEPT !.atSd = TRUE]
                                         ELSE conn[c]]
  /\ ctxDone' = [i \in RunIds |->
                   IF i <= nRuns /\ ctxDone[i] = "no" THEN "stop" ELSE ctxDone[i]]
  /\ UNCHANGED <<renderVars, ctorVars, proc, parentDone, nRuns, ctxParent, sigReg,
                 sigCh, stopCalls, goVars, lnOpen, tracked, sdRet>>

\* func (r *httpServerRunner) Shutdown(timeout) error, first step of
\* Server.Shutdown: srv.inShutdown.Store(true).  atSd marks the requests in
\* flight at this moment.
Shutdown(timeout) ==
  /\ proc = "alive" /\ r # NoRunner /\ sd.pc = "idle" /\ Len(sdRet) < MaxShutdowns
  /\ inShutdown' = TRUE
  /\ sd' = [pc |-> "closeLn", timeout |-> timeout, polled |-> FALSE]
  /\ conn' = [c \in ConnIds |->
                IF conn[c].st = "active" THEN [conn[c] EXCEPT !.atSd = TRUE]
                                         ELSE conn[c]]
  /\ UNCHANGED <<renderVars, ctorVars, proc, parentDone, nRuns, sigVars, goVars, lnOpen,
                 tracked, sdRet>>

\* A Server.Shutdown that leaves the listeners open.
SdKeepListeners ==
  /\ proc = "alive" /\ sd.pc = "closeLn"
  /\ sd' = [sd EXCEPT !.pc = "wait"]
  /\ UNCHANGED <<renderVars, ctorVars, proc, parentDone, nRuns, sigVars, goVars, lnOpen,
                 tracked, inShutdown, conn, sdRet>>

\* Server.Shutdown: srv.mu.Lock(); lnerr := srv.closeListenersLocked()
SdCloseListeners ==
  /\ proc = "alive" /\ sd.pc = "closeLn"
  /\ lnOpen' = [i \in RunIds |-> lnOpen[i] /\ ~tracked[i]]
  /\ conn' = CloseBacklog(conn, {i \in RunIds : tracked[i]})
  /\ sd' = [sd EXCEPT !.pc = "wait"]
  /\ UNCHANGED <<renderVars, ctorVars, proc, parentDone, nRuns, sigVars, goVars, tracked,
                 inShutdown, sdRet>>

\* Server.Shutdown: srv.listenerGroup.Wait()
SdWait ==
  /\ proc = "alive" /\ sd.pc = "wait"
  /\ \A i \in RunIds : ~tracked[i]
  /\ sd' = [sd EXCEPT !.pc = "poll"]
  /\ UNCHANGED <<renderVars, ctorVars, proc, parentDone, nRuns, sigVars, goVars, srvVars, sdRet>>

\* Closing every tracked connection, busy or not, as Server.Close does.
CloseAllConns(cs, stale) ==
  [c \in ConnIds |->
     IF cs[c].st \in {"new", "active", "idle"}
       THEN [cs[c] EXCEPT !.st = "closed"] ELSE cs[c]]

\* Server.closeIdleConns: a connection is closed when it is idle, or new and
\* without a request for more than five seconds (those of stale); any other
\* tracked connection makes the server not quiescent.
CloseIdleConns(cs, stale) ==
  [c \in ConnIds |->
     IF cs[c].st = "idle" \/ (cs[c].st = "new" /\ c \in stale)
       THEN [cs[c] EXCEPT !.st = "closed"] ELSE cs[c]]

Quiescent(cs) == \A c \in ConnIds : cs[c].st \notin {"new", "active", "idle"}

\* Server.Shutdown, one round of the polling loop:
\* if srv.closeIdleConns() { return lnerr }
SdPoll(stale) ==
  /\ proc = "alive" /\ sd.pc = "poll"
  /\ stale \subseteq {c \in ConnIds : conn[c].st = "new"}
  /\ conn' = CloseIdleConns(conn, stale)
  /\ IF Quiescent(conn')
       THEN /\ sdRet' = Append(sdRet, ShutdownReturn(Nil))
            /\ sd' = IdleSd
       ELSE /\ sdRet' = sdRet
            /\ sd' = [sd EXCEPT !.polled = TRUE]
  /\ UNCHANGED <<renderVars, ctorVars, proc, parentDone, nRuns, sigVars, goVars, lnOpen,
                 tracked, inShutdown>>

\* Server.Shutdown, polling loop: select { case <-ctx.Done(): return ctx.Err() }
\* ctx is done when its deadline has passed or its root is done.  It is
\* looked at only after a round that found the server busy.
SdDeadline ==
  /\ proc = "alive" /\ sd.pc = "poll" /\ sd.polled
  /\ HasDeadline(sd.timeout) \/ RootDone(ShutdownRoot)
  /\ sdRet' = Append(sdRet, ShutdownReturn(IF RootDone(ShutdownRoot)
                                             THEN Canceled
                                             ELSE DeadlineExceeded))
  /\ sd' = IdleSd
  /\ UNCHANGED <<renderVars, ctorVars, proc, parentDone, nRuns, sigVars, goVars, srvVars>>

\* ------------------------------------------------------------ response.go

\* A pointer getter that takes a nil pointer for a ResponseLog.
GetResponseLogPtrUnchecked(holder) == "ptr"

\* func GetResponseLogPtrFromContext(ctx) *ResponseLog: nil when the context
\* holds no *ResponseLog, else the pointer held (which may be nil).
GetResponseLogPtrFromContext(holder) ==
  IF holder = "ptr" THEN "ptr" ELSE Nil

Min(a, b) == IF a < b THEN a ELSE b

\* A body writer that counts the bytes it was asked to write.
BodyWriteAsked(st, len) ==
  LET n == Min(len, st.cap)
  IN [cap |-> st.cap - n, size |-> st.size + len,
      err |-> IF n < len THEN ErrWriter ELSE NoErr]

\* func (w *responseBodyWriter) Write(b): n, err := w.w.Write(b);
\* w.responseSize += int64(n).  The ResponseWriter takes cap more bytes and
\* fails on a Write it cannot take in full.
BodyWrite(st, len) ==
  LET n == Min(len, st.cap)
  IN [cap |-> st.cap - n, size |-> st.size + n,
      err |-> IF n < len THEN ErrWriter ELSE NoErr]

\* RenderBody(ctx, &wrapped): the renderer's Write calls in order, up to the
\* first that fails.
RECURSIVE WriteAll(_, _)
WriteAll(writes, st) ==
  IF writes = <<>> \/ st.err # NoErr THEN st
  ELSE WriteAll(Tail(writes), BodyWrite(st, Head(writes)))

RenderBody(renderer, wcap) ==
  LET st == WriteAll(renderer.writes, [cap |-> wcap, size |-> 0, err |-> NoErr])
  IN [size |-> st.size,
      err |-> IF st.err # NoErr THEN st.err ELSE renderer.bodyErr]

\* A renderResponse that leaves out RenderBody once RenderHeader failed.
renderResponseStopsOnHeaderErr(holder, before, statusCode, renderer, wcap, cause) ==
  LET halted == renderer.present /\ renderer.headerErr # NoErr
      body == IF renderer.present /\ ~halted THEN RenderBody(renderer, wcap)
                                           ELSE [size |-> 0, err |-> NoErr]
      resPtr == GetResponseLogPtrFromContext(holder)
  IN [ev |-> (IF renderer.present THEN <<"RenderHeader">> ELSE <<>>)
               \o <<"WriteHeader">>
               \o (IF renderer.present /\ ~halted THEN <<"RenderBody">> ELSE <<>>),
      hdrRet |-> IF renderer.present THEN renderer.headerErr ELSE NoErr,
      bodyRet |-> body.err,
      status |-> statusCode,
      written |-> body.size,
      log |-> IF resPtr # Nil
                THEN [StatusCode |-> statusCode, ResponseSize |-> body.size,
                      Error |-> cause, skip |-> 3]
                ELSE before,
      holderAfter |-> holder,
      err |-> IF halted THEN renderer.headerErr ELSE body.err]

\* A renderResponse that records the renderer's error in ResponseLog.Error.
renderResponseLogsErr(holder, before, statusCode, renderer, wcap, cause) ==
  LET body == IF renderer.present THEN RenderBody(renderer, wcap)
                                  ELSE [size |-> 0, err |-> NoErr]
      err == IF body.err # NoErr THEN Join(renderer.headerErr, body.err)
                                 ELSE renderer.headerErr
      resPtr == GetResponseLogPtrFromContext(holder)
  IN [ev |-> IF renderer.present
               THEN <<"RenderHeader", "WriteHeader", "RenderBody">>
               ELSE <<"WriteHeader">>,
      hdrRet |-> IF renderer.present THEN renderer.headerErr ELSE NoErr,
      bodyRet |-> body.err,
      status |-> statusCode,
      written |-> body.size,
      log |-> IF resPtr # Nil
                THEN [StatusCode |-> statusCode, ResponseSize |-> body.size,
                      Error |-> IF err # NoErr THEN err ELSE cause, skip |-> 3]
                ELSE before,
      holderAfter |-> holder,
      err |-> err]

\* func renderResponse(ctx, w, statusCode, bodyRenderer, cause) error
renderResponse(holder, before, statusCode, renderer, wcap, cause) ==
  LET headerErr == IF renderer.present THEN renderer.headerErr ELSE NoErr
      body == IF renderer.present THEN RenderBody(renderer, wcap)
                                  ELSE [size |-> 0, err |-> NoErr]
      err == IF body.err # NoErr THEN Join(headerErr, body.err) ELSE headerErr
      resPtr == GetResponseLogPtrFromContext(holder)
  IN [ev |-> IF renderer.present
               THEN <<"RenderHeader", "WriteHeader", "RenderBody">>
               ELSE <<"WriteHeader">>,
      hdrRet |-> IF renderer.present THEN renderer.headerErr ELSE NoErr,
      bodyRet |-> body.err,
      status |-> statusCode,
      written |-> body.size,
      log |-> IF resPtr # Nil
                THEN [StatusCode |-> statusCode, ResponseSize |-> body.size,
                      Error |-> cause, skip |-> 3]
                ELSE before,
      holderAfter |-> holder,
      err |-> err]

\* func RenderRedirect(ctx, w, r, url): the ResponseLog is set first, then
\* http.Redirect writes the status (and its own short body, not counted).
RenderRedirect(holder, before) ==
  LET resPtr == GetResponseLogPtrFromContext(holder)
  IN [ev |-> <<"WriteHeader">>,
      hdrRet |-> NoErr,
      bodyRet |-> NoErr,
      status |-> StatusOf("RenderRedirect"),
      written |-> 0,
      log |-> IF resPtr # Nil
                THEN [StatusCode |-> StatusOf("RenderRedirect"), ResponseSize |-> 0,
                      Error |-> NoErr, skip |-> 1]
                ELSE before,
      holderAfter |-> holder,
      err |-> NoErr]

\* One call of an exported Render function in a handler, on a fresh
\* ResponseWriter: those without a body pass a nil renderer
\* (renderStatusCode), those without a cause pass a nil cause.
RenderCall(fn, holder, before, renderer, wcap, cause) ==
  /\ rcall = NoCall
  /\ fn \notin BodyFns => renderer = NoRenderer /\ wcap = 0
  /\ fn \notin CauseFns => cause = NoErr
  /\ holder # "ptr" => before = ZeroLog
  /\ rcall' = [fn |-> fn, holder |-> holder, before |-> before,
               renderer |-> renderer, wcap |-> wcap, cause |-> cause]
  /\ rres' = IF fn = "RenderRedirect"
               THEN RenderRedirect(holder, before)
               ELSE renderResponse(holder, before, StatusOf(fn), renderer, wcap, cause)
  /\ UNCHANGED runnerVars

\* ------------------------------------------------------------ specification

\* the caller builds the runner and calls Run
NextCaller ==
  \/ \E s \in {Nil, "server"}, e \in SinkInputs, p \in SinkInputs :
       NewHTTPServerRunner(s, e, p)
  \/ Run

\* the caller's context, the signals and the stop function
NextSignal ==
  \/ CancelParent
  \/ \E s \in Signals : Signal(s)
  \/ \E i \in RunIds : Watch(i)
  \/ \E i \in RunIds : stop(i)

\* the goroutine started by Run, Shutdown, and the clients that use the
\* connections of C
NextServe(C) ==
  \/ \E i \in RunIds : LASEnter(i)
  \/ \E i \in RunIds, taken \in BOOLEAN : LASListen(i, taken)
  \/ \E i \in RunIds, hookPanics \in BOOLEAN : LASServe(i, hookPanics)
  \/ \E i \in RunIds, c \in C : LASAccept(i, c)
  \/ \E i \in RunIds, fails \in BOOLEAN : LASAcceptErr(i, fails)
  \/ \E i \in RunIds, panics \in BOOLEAN : CallOnError(i, panics)
  \/ \E i \in RunIds, panics \in BOOLEAN : Recover(i, panics)
  \/ \E c \in C : ClientConnect(c)
  \/ \E c \in C, n \in 1..MaxChunks : ConnRead(c, n)
  \/ \E c \in C : HandlerWrite(c)
  \/ \E c \in C : HandlerReturn(c)
  \/ \E t \in Timeouts : Shutdown(t)
  \/ SdCloseListeners
  \/ SdWait
  \/ \E stale \in SUBSET C : SdPoll(stale)
  \/ SdDeadline

Next == NextCaller \/ NextSignal \/ NextServe(ConnIds)

\* The runner with every event of its environment.
Spec == Init /\ [][Next]_vars

\* The runner in a process that receives no signal and whose caller neither
\* cancels the context given to Run nor calls stop.
SpecServe == Init /\ [][NextCaller \/ NextServe(ConnIds)]_vars

\* The runner with every event of its environment and a single client.
SpecSingle == Init /\ [][NextCaller \/ NextSignal \/ NextServe({1})]_vars

\* SpecSingle with the scheduling of the goroutine signal.NotifyContext
\* starts: a watcher that can receive from its channel eventually does.
SpecWatch == SpecSingle /\ \A i \in RunIds : WF_vars(Watch(i))

\* SpecServe with the scheduling of Server.Shutdown: the goroutine that runs
\* Shutdown takes its next step, the timer of its deadline fires, and an
\* accept loop whose listener was closed returns.  The handlers are under no
\* obligation to finish.
SpecDeadline ==
  /\ SpecServe
  /\ WF_vars(SdCloseListeners)
  /\ WF_vars(SdWait)
  /\ WF_vars(\E stale \in SUBSET ConnIds : SdPoll(stale))
  /\ WF_vars(SdDeadline)
  /\ \A i \in RunIds : WF_vars(LASAcceptErr(i, FALSE))

\* SpecDeadline with handlers that finish: a handler writes its next chunk
\* and returns once the response is written.
SpecHandlers ==
  /\ SpecDeadline
  /\ \A c \in ConnIds : WF_vars(HandlerWrite(c)) /\ WF_vars(HandlerReturn(c))

\* SpecDeadline with the scheduling of the goroutine Run starts: it takes its
\* next step, and a sink that was called returns or panics.
SpecUnit ==
  /\ SpecDeadline
  /\ \A i \in RunIds :
       /\ WF_vars(LASEnter(i))
       /\ WF_vars(\E taken \in BOOLEAN : LASListen(i, taken))
       /\ WF_vars(\E hookPanics \in BOOLEAN : LASServe(i, hookPanics))
       /\ WF_vars(\E panics \in BOOLEAN : CallOnError(i, panics))
       /\ WF_vars(\E panics \in BOOLEAN : Recover(i, panics))

\* the handlers' calls of the Render functions
NextRender ==
  \E fn \in RenderFns, holder \in Holders :
    \E before \in (IF holder = "ptr" THEN {ZeroLog, StaleLog} ELSE {ZeroLog}),
       renderer \in (IF fn \in BodyFns THEN Renderers \cup {NoRenderer}
                                       ELSE {NoRenderer}),
       wcap \in (IF fn \in BodyFns THEN 0..(MaxBody * MaxWrites) ELSE {0}),
       cause \in (IF fn \in CauseFns THEN {NoErr, ErrCause} ELSE {NoErr}) :
      RenderCall(fn, holder, before, renderer, wcap, cause)

\* The Render functions of response.go, each called with every argument.
SpecRender == Init /\ [][NextRender]_vars

\* ------------------------------------------------------------------ claims

Failed(err) == err # Nil /\ err # ErrServerClosed
Finished(i) == gpc[i] \in {"done", "crashed"}
Complete(c) == conn[c].total >= 1 /\ conn[c].sent = conn[c].total
ReturnedNil == \E k \in 1..Len(sdRet) : sdRet[k] = Nil

\* C1: a request that was being handled when Shutdown was invoked is closed
\* by the server only with its whole response sent (the status line and
\* every chunk), and once a Shutdown has returned nil every such request has
\* been delivered in full and its connection closed.
C1_InFlightDelivered ==
  \A c \in ConnIds :
    conn[c].atSd =>
      /\ conn[c].st = "closed" => Complete(c)
      /\ ReturnedNil => conn[c].st = "closed" /\ Complete(c)

\* C1 witness: Shutdown returned nil after every connection carried a request
\* in flight at its invocation, one of them a response of MaxChunks chunks
C1_Witness ==
  /\ ReturnedNil
  /\ \A c \in ConnIds : conn[c].atSd /\ conn[c].st = "closed" /\ Complete(c)
  /\ \E c \in ConnIds : conn[c].total = MaxChunks

\* C2 (as claimed): once a Shutdown call has returned, every connection
\* attempt to the server's address is refused.
C2_RefusedAfterShutdown ==
  [][\A c \in ConnIds :
       (Len(sdRet) > 0 /\ ClientConnect(c)) => conn'[c].st = "refused"]_vars

\* C3 (as claimed): when ListenAndServe has returned an error other than
\* ErrServerClosed and the goroutine has dealt with it, r.onError has been
\* called once with that error and the completion context, and r.onPanic
\* has not been called.
C3_Original ==
  \A i \in RunIds :
    (Failed(srvErr[i]) /\ gpc[i] # "onError") =>
      /\ errCalls[i] = <<[ctx |-> i, err |-> srvErr[i]]>>
      /\ panicCalls[i] = <<>>

\* C3 (amended): the same, r.onPanic being left uncalled as long as r.onError
\* returned; a panic of r.onError is the one thing handed to r.onPanic.
C3_ErrorSinkCalled ==
  \A i \in RunIds :
    (Failed(srvErr[i]) /\ gpc[i] # "onError") =>
      /\ errCalls[i] = <<[ctx |-> i, err |-> srvErr[i]]>>
      /\ rvr[i] = Nil => panicCalls[i] = <<>>
      /\ rvr[i] # Nil => rvr[i] = PanicOf(srvErr[i])

\* C3 witness: the bind failure reported, the goroutine finished
C3_Witness ==
  \E i \in RunIds :
    /\ gpc[i] = "done" /\ srvErr[i] = ErrBind
    /\ errCalls[i] = <<[ctx |-> i, err |-> ErrBind]>>
    /\ panicCalls[i] = <<>>

\* C4: when ListenAndServe returned ErrServerClosed, neither r.onError nor
\* r.onPanic is ever called for that Run.
C4_ServerClosedSilent ==
  \A i \in RunIds :
    srvErr[i] = ErrServerClosed =>
      /\ errCalls[i] = <<>> /\ panicCalls[i] = <<>>
      /\ gpc[i] = "done" /\ rvr[i] = Nil

\* C4 witness: the accept loop served, then ended by a Shutdown that returned
C4_Witness ==
  \E i \in RunIds :
    /\ srvErr[i] = ErrServerClosed /\ gpc[i] = "done"
    /\ Len(sdRet) > 0
    /\ \E c \in ConnIds : conn[c].st = "closed" /\ Complete(c)

\* C5 (as claimed): a panic raised in the goroutine is handed to r.onPanic
\* with the completion context, the goroutine ends and the process lives.
C5_Original ==
  \A i \in RunIds :
    (rvr[i] # Nil /\ gpc[i] # "recover") =>
      /\ panicCalls[i] = <<[ctx |-> i, rvr |-> rvr[i]]>>
      /\ gpc[i] = "done" /\ proc = "alive"

\* C5 (amended): a panic raised in the goroutine is handed to r.onPanic once,
\* with the completion context; the goroutine then ends and the process
\* lives, unless r.onPanic itself panicked.  Nothing else ends the process.
C5_PanicForwarded ==
  /\ \A i \in RunIds :
       (rvr[i] # Nil /\ gpc[i] # "recover") =>
         /\ panicCalls[i] = <<[ctx |-> i, rvr |-> rvr[i]]>>
         /\ Finished(i)
  /\ proc = "crashed" =>
       /\ r.onPanic = "func"
       /\ \E i \in RunIds : gpc[i] = "crashed" /\ panicCalls[i] # <<>>

\* C5 witness: a panic out of Serve recovered, the goroutine ended
C5_Witness ==
  \E i \in RunIds :
    /\ rvr[i] = ServePanic /\ gpc[i] = "done" /\ proc = "alive"
    /\ panicCalls[i] = <<[ctx |-> i, rvr |-> ServePanic]>>

\* C6: when r.onError panicked on the error it was given, r.onPanic has been
\* called with the very value r.onError raised.
C6_ErrorSinkPanicForwarded ==
  \A i \in RunIds :
    (errCalls[i] # <<>> /\ rvr[i] # Nil /\ gpc[i] # "recover") =>
      /\ rvr[i] = PanicOf(errCalls[i][1].err)
      /\ panicCalls[i] = <<[ctx |-> i, rvr |-> PanicOf(errCalls[i][1].err)]>>

\* C6 witness: the bind failure, r.onError panicking on it, r.onPanic called
C6_Witness ==
  \E i \in RunIds :
    /\ errCalls[i] = <<[ctx |-> i, err |-> ErrBind]>>
    /\ panicCalls[i] = <<[ctx |-> i, rvr |-> PanicOf(ErrBind)]>>
    /\ gpc[i] = "done"

\* C7: a SIGTERM or os.Interrupt delivered while the registration of a Run
\* is in place leads to that Run's completion context being done, as long as
\* the process lives.
C7_SignalMakesDone ==
  \A i \in RunIds : sigCh[i] ~> (ctxDone[i] # "no" \/ proc = "crashed")

\* C7 witness: the completion context done by the signal, the server running
C7_Witness ==
  \E i \in RunIds :
    ctxDone[i] = "signal" /\ sigReg[i] /\ stopCalls[i] = 0 /\ gpc[i] = "accept"

\* C8: no step makes a completion context done through the caller's context,
\* whether that context was cancelled before Run or after it, and the step
\* that cancels the caller's context changes nothing of the goroutine, the
\* server or its connections.
C8_ParentCancelIgnored ==
  [][/\ \A i \in RunIds : ctxDone'[i] # "parent"
     /\ parentDone' # parentDone => UNCHANGED <<goVars, srvVars, sdVars>>]_vars

\* C8 witness: the caller's context cancelled, the completion context not
\* done, the accept loop running with a request being served
C8_Witness ==
  \E i \in RunIds :
    /\ parentDone /\ ctxDone[i] = "no" /\ sigReg[i]
    /\ gpc[i] = "accept" /\ lnOpen[i] /\ tracked[i]
    /\ \E c \in ConnIds : conn[c].st = "active" /\ conn[c].ln = i

\* C9: the step that makes a completion context done changes nothing of the
\* goroutine, the server or its connections, and the server enters shutdown
\* only by a call of Shutdown.
C9_DoneStopsNothing ==
  [][/\ (\E i \in RunIds : ctxDone[i] = "no" /\ ctxDone'[i] # "no")
          => UNCHANGED <<goVars, srvVars, sdVars>>
     /\ (~inShutdown /\ inShutdown') => (sd.pc = "idle" /\ sd'.pc = "closeLn")]_vars

\* C9 witness: the completion context done, the accept loop running with a
\* request being served and no shutdown begun
C9_Witness ==
  \E i \in RunIds :
    /\ ctxDone[i] \in {"signal", "stop"} /\ ~inShutdown /\ sd.pc = "idle"
    /\ gpc[i] = "accept" /\ lnOpen[i] /\ tracked[i]
    /\ \E c \in ConnIds : conn[c].st = "active" /\ conn[c].ln = i

\* C10 (as claimed): after the stop function of a Run was called the signal
\* registration is released and the completion context is done only if a
\* signal made it so.
C10_Original ==
  \A i \in RunIds :
    stopCalls[i] > 0 => ~sigReg[i] /\ ctxDone[i] \in {"no", "signal"}

\* C10 (amended): after the stop function of a Run was called the signal
\* registration is released and the completion context is done: by the
\* signal when one was received before, by the stop function otherwise.
C10_StopCancels ==
  \A i \in RunIds :
    stopCalls[i] > 0 => ~sigReg[i] /\ ctxDone[i] \in {"signal", "stop"}

\* C10 witness: the stop function called twice with no signal received, the
\* completion context done by it
C10_Witness ==
  \E i \in RunIds :
    stopCalls[i] = MaxStopCalls /\ ctxDone[i] = "stop" /\ ~sigReg[i] /\ ~sigCh[i]

\* C11: the completion context of a Run goes from not done to done at most
\* once, only by the step of the signal watcher (cause "signal", a signal
\* having been delivered to its channel) or by a call of the stop function
\* (cause "stop"); once done it keeps its cause through every later signal
\* and every later call of the stop function.
C11_DoneOnce ==
  [][\A i \in RunIds :
       /\ ctxDone[i] # "no" => ctxDone'[i] = ctxDone[i]
       /\ (ctxDone[i] = "no" /\ ctxDone'[i] # "no") =>
            \/ ctxDone'[i] = "signal" /\ sigCh[i] /\ stopCalls'[i] = stopCalls[i]
            \/ ctxDone'[i] = "stop" /\ stopCalls'[i] = stopCalls[i] + 1]_vars

\* C11 witness: the context done by the signal, then a second signal
\* delivered and the stop function called twice
C11_Witness ==
  \E i \in RunIds :
    ctxDone[i] = "signal" /\ stopCalls[i] = MaxStopCalls /\ sigCh[i]

Returns == Len(sdRet') = Len(sdRet) + 1
Returned == sdRet'[Len(sdRet')]

\* C12: a Shutdown called with timeout <= 0 returns only nil, and returns
\* only in a step that leaves the server without any tracked connection:
\* while a request is in flight it does not return.
C12_NoDeadlineWaits ==
  [][(sd.pc # "idle" /\ sd.timeout <= 0 /\ Returns) =>
       /\ Returned = Nil
       /\ \A c \in ConnIds : conn'[c].st \notin {"new", "active", "idle"}
       /\ \A c \in ConnIds : conn'[c].atSd => conn'[c].st = "closed"]_vars

\* C12 witness: a Shutdown with timeout <= 0 that found the server busy and
\* waits on a request whose response is not yet written in full
C12_Witness ==
  /\ sd.pc = "poll" /\ sd.timeout <= 0 /\ sd.polled
  /\ \E c \in ConnIds :
       conn[c].st = "active" /\ conn[c].atSd /\ conn[c].sent < conn[c].total

\* C13: a Shutdown called with timeout > 0 returns, whether or not the
\* requests in flight ever finish (as long as the process lives); when it
\* returns with a connection still tracked it returns the deadline error,
\* the returning step closes no connection, and the server closes an idle or
\* new connection only in a round of a Shutdown that has not returned.
C13_DeadlineBoundsShutdown ==
  /\ (sd.pc # "idle" /\ sd.timeout > 0) ~> (sd.pc = "idle" \/ proc = "crashed")
  /\ [][/\ (sd.timeout > 0 /\ Returns /\ ~Quiescent(conn')) =>
              Returned = DeadlineExceeded /\ conn' = conn
        /\ (\E c \in ConnIds : conn[c].st \in {"new", "idle"}
                                 /\ conn'[c].st = "closed") =>
              sd.pc = "poll"]_vars

\* C13 witness: Shutdown with a deadline returned the deadline error while a
\* request was still being handled, its response not written in full
C13_Witness ==
  /\ sd.pc = "idle" /\ sdRet = <<DeadlineExceeded>>
  /\ \E c \in ConnIds :
       conn[c].st = "active" /\ conn[c].atSd /\ conn[c].sent < conn[c].total

\* C14: a step that cancels the caller's context, delivers a signal or makes
\* a completion context done changes nothing of a Shutdown in progress, and
\* a Shutdown returns only nil from a round that found no tracked
\* connection, or the deadline error of its own timeout > 0 after a round
\* that found the server busy: never because one of those contexts is done.
C14_ShutdownIndependent ==
  [][/\ (parentDone' # parentDone \/ ctxDone' # ctxDone \/ sigCh' # sigCh)
          => UNCHANGED <<sd, sdRet, inShutdown, conn>>
     /\ Returns =>
          \/ Returned = Nil /\ Quiescent(conn')
          \/ Returned = DeadlineExceeded /\ sd.timeout > 0 /\ sd.polled]_vars

\* C14 witness: the caller's context cancelled and the completion context
\* done while a Shutdown with a deadline is still waiting on a request
C14_Witness ==
  /\ sd.pc = "poll" /\ sd.timeout > 0 /\ sd.polled
  /\ parentDone
  /\ \E i \in RunIds : ctxDone[i] # "no"
  /\ \E c \in ConnIds : conn[c].st = "active" /\ conn[c].atSd

C16_InFlightResolves ==
  /\ [](\A k \in 1..Len(sdRet) : sdRet[k] \in {Nil, DeadlineExceeded})
  /\ \A c \in ConnIds :
       conn[c].atSd ~> (conn[c].st = "closed" \/ proc = "crashed")

\* C16 witness: Shutdown gave up at its deadline and the request it left
\* behind was answered in full afterwards, its connection closed
C16_Witness ==
  /\ sdRet = <<DeadlineExceeded>>
  /\ \A c \in ConnIds : conn[c].atSd /\ conn[c].st = "closed" /\ Complete(c)

\* C17: NewHTTPServerRunner called with a nil server, whatever the two
\* callbacks, panics with "server is nil" and builds no runner; a runner that
\* exists has a server and was built by a call that did not panic.
C17_NilServerPanics ==
  [][/\ \A e \in SinkInputs, p \in SinkInputs :
          NewHTTPServerRunner(Nil, e, p) =>
            ctorPanic' = "server is nil" /\ r' = NoRunner /\ nRuns' = 0
     /\ r' # NoRunner => r'.server # Nil /\ ctorPanic' = Nil
     /\ ctorPanic' # Nil => ctorPanic' = "server is nil" /\ r' = NoRunner]_vars

\* C17 witness: the constructor has panicked and there is no runner
C17_Witness ==
  /\ ctorPanic = "server is nil" /\ r = NoRunner
  /\ nRuns = 0 /\ \A i \in RunIds : gpc[i] = "none"

\* C18: both callbacks of a runner are callable; with a nil onError given
\* to the constructor an error of ListenAndServe ends the goroutine quietly,
\* with a nil onPanic a recovered panic ends it quietly, and no call of a
\* nil function ever happens.
C18_SinksCallable ==
  /\ r # NoRunner => r.onError \in {"noop", "func"} /\ r.onPanic \in {"noop", "func"}
  /\ \A i \in RunIds :
       /\ rvr[i] # NilCall
       /\ (r.onError = "noop" /\ Failed(srvErr[i]) /\ gpc[i] # "onError") =>
            gpc[i] = "done" /\ rvr[i] = Nil /\ panicCalls[i] = <<>>
       /\ (r.onPanic = "noop" /\ rvr[i] # Nil /\ gpc[i] # "recover") =>
            gpc[i] = "done" /\ proc = "alive"

\* C18 witness: a runner built with two nil callbacks whose goroutine ended
\* after a panic, the process alive
C18_Witness ==
  /\ r.onError = "noop" /\ r.onPanic = "noop" /\ proc = "alive"
  /\ \E i \in RunIds : gpc[i] = "done" /\ rvr[i] = ServePanic

\* C19: the step in which Run returns only starts the goroutine: it leaves
\* the goroutine at its first instruction and changes nothing of the
\* listener, the connections, the result of ListenAndServe or the sinks'
\* calls; and Run returns whatever the state of the server is.
C19_RunDoesNotWait ==
  [][nRuns' # nRuns =>
       /\ nRuns' = nRuns + 1 /\ gpc[nRuns'] = "none" /\ gpc'[nRuns'] = "start"
       /\ UNCHANGED <<srvErr, rvr, errCalls, panicCalls, srvVars, sdVars>>]_vars

\* C19 witness: Run has returned and the caller has since had a whole
\* Shutdown return, the goroutine not having taken its first step
C19_Witness ==
  \E i \in RunIds :
    /\ nRuns >= i /\ gpc[i] = "start" /\ ~lnOpen[i]
    /\ Len(sdRet) = 1 /\ \E c \in ConnIds : conn[c].st = "refused"

C21_SinksAtMostOnce ==
  \A i \in RunIds :
    /\ Len(errCalls[i]) <= 1 /\ Len(panicCalls[i]) <= 1
    /\ errCalls[i] # <<>> => Failed(srvErr[i]) /\ errCalls[i][1].err = srvErr[i]
    /\ panicCalls[i] # <<>> => rvr[i] # Nil /\ panicCalls[i][1].rvr = rvr[i]

\* C21 witness: a Run whose goroutine ended after one call of each sink
C21_Witness ==
  \E i \in RunIds :
    Finished(i) /\ Len(errCalls[i]) = 1 /\ Len(panicCalls[i]) = 1

\* C22: the signal registration of a Run is made by the step of Run and is
\* released only by a step of its stop function; it is in place for every
\* Run whose stop function was not called, whatever signals were delivered,
\* whether Shutdown was called and however the goroutine ended, and it is
\* released once the stop function was called.
C22_RegistrationHeld ==
  [][\A i \in RunIds :
       /\ (~sigReg[i] /\ sigReg'[i]) => nRuns = i - 1 /\ nRuns' = i
       /\ (sigReg[i] /\ ~sigReg'[i]) => stopCalls'[i] = stopCalls[i] + 1
       /\ (i <= nRuns' /\ stopCalls'[i] = 0) => sigReg'[i]
       /\ stopCalls'[i] > 0 => ~sigReg'[i]]_vars

\* C22 witness: the registration still in place after a signal made the
\* context done, Shutdown returned and the goroutine ended
C22_Witness ==
  \E i \in RunIds :
    /\ sigReg[i] /\ stopCalls[i] = 0 /\ ctxDone[i] = "signal"
    /\ Len(sdRet) = 1 /\ gpc[i] = "done"

\* C23: no call of the stop function ends the process or raises a panic in
\* the goroutine, and a call after the first changes nothing but the count
\* of calls: the completion context, the registration, the pending signal,
\* the goroutine, the server and a Shutdown in progress stay as they are.
C23_StopIdempotent ==
  [][\A i \in RunIds :
       stopCalls'[i] # stopCalls[i] =>
         /\ proc' = proc /\ rvr' = rvr /\ ctorPanic' = ctorPanic
         /\ stopCalls[i] > 0 =>
              UNCHANGED <<ctxDone, sigReg, sigCh, goVars, srvVars, sdVars>>]_vars

\* C23 witness: the stop function called twice while the accept loop serves
\* a request
C23_Witness ==
  \E i \in RunIds :
    /\ stopCalls[i] = MaxStopCalls /\ proc = "alive"
    /\ gpc[i] = "accept" /\ lnOpen[i]
    /\ \E c \in ConnIds : conn[c].st = "active"

RECURSIVE Asked(_)
Asked(writes) == IF writes = <<>> THEN 0 ELSE Head(writes) + Asked(Tail(writes))

C26_NoHolder ==
  (rcall # NoCall /\ rcall.holder # "ptr") =>
    /\ rres.status = StatusOf(rcall.fn)
    /\ \E k \in 1..Len(rres.ev) : rres.ev[k] = "WriteHeader"
    /\ rcall.renderer.present => rres.ev = <<"RenderHeader", "WriteHeader", "RenderBody">>
    /\ rres.written = Min(Asked(rcall.renderer.writes), rcall.wcap)
    /\ rres.err.msgs = rres.hdrRet.msgs \o rres.bodyRet.msgs
    /\ (rres.hdrRet = NoErr /\ rres.bodyRet = NoErr) => rres.err = NoErr
    /\ rres.holderAfter = rcall.holder
    /\ GetResponseLogPtrFromContext(rres.holderAfter) = Nil
    /\ rres.log = rcall.before

\* C26 witness: RenderOKWithBody without a ResponseLog in the context wrote
\* the status and the whole body and returned nil
C26_Witness ==
  /\ rcall.fn = "RenderOKWithBody"
  /\ rcall.holder = "absent"
  /\ rcall.renderer.present
  /\ rres.status = 200
  /\ rres.written = 4
  /\ rres.err = NoErr
  /\ rres.holderAfter = "absent"

\* C27: no step of Shutdown changes a completion context: a step that
\* starts, advances or ends a Shutdown call leaves every completion context
\* as it was, and a completion context is done only through a signal that was
\* delivered or a call of the stop function.
C27_ShutdownKeepsContext ==
  /\ [][(sd' # sd \/ sdRet' # sdRet \/ inShutdown' # inShutdown)
          => ctxDone' = ctxDone]_vars
  /\ [](\A i \in RunIds :
          /\ ctxDone[i] \in {"no", "signal", "stop"}
          /\ ctxDone[i] = "stop" => stopCalls[i] > 0)
  /\ [][\A i \in RunIds :
          (ctxDone[i] = "no" /\ ctxDone'[i] = "signal") => sigCh[i]]_vars

\* C27 witness: a Shutdown call made after Run timed out, and the completion
\* context, whose signal registration is in place, is not done
C27_Witness ==
  /\ sdRet = <<DeadlineExceeded>>
  /\ nRuns = 1
  /\ gpc[1] = "done"
  /\ ctxDone[1] = "no"
  /\ sigReg[1]
  /\ stopCalls[1] = 0

\* Shutdown was invoked and the goroutine of Run i, if Run was called at all,
\* has not entered ListenAndServe.
ShutdownFirst(i) == inShutdown /\ gpc[i] \in {"none", "start"}

\* C28: a Shutdown call that returns before any Run returns nil.  When
\* Shutdown was invoked before the goroutine of a Run entered ListenAndServe,
\* that goroutine opens no listener and takes no connection: its one step ends
\* ListenAndServe with ErrServerClosed and ends the goroutine, and neither
\* r.onError nor r.onPanic is called.
C28_ShutdownBeforeRun ==
  /\ [](\A i \in RunIds :
          ShutdownFirst(i) =>
            /\ ~lnOpen[i] /\ ~tracked[i] /\ srvErr[i] = Nil /\ rvr[i] = Nil
            /\ errCalls[i] = <<>> /\ panicCalls[i] = <<>>)
  /\ [][/\ (Returns /\ nRuns = 0) => Returned = Nil
        /\ \A i \in RunIds :
             (ShutdownFirst(i) /\ gpc[i] = "start" /\ gpc'[i] # "start") =>
               /\ gpc'[i] = "done"
               /\ srvErr'[i] = ErrServerClosed
               /\ rvr'[i] = Nil
               /\ errCalls'[i] = <<>> /\ panicCalls'[i] = <<>>
               /\ ~lnOpen'[i] /\ ~tracked'[i]
               /\ \A c \in ConnIds : conn'[c].ln # i]_vars

\* C28 witness: Shutdown returned nil, with no connection ever made, and the
\* goroutine of the Run of a runner that has both sinks ended on
\* ErrServerClosed without a call of either
C28_Witness ==
  /\ sdRet = <<Nil>>
  /\ r.onError = "func" /\ r.onPanic = "func"
  /\ nRuns = 1 /\ gpc[1] = "done" /\ srvErr[1] = ErrServerClosed
  /\ errCalls[1] = <<>> /\ panicCalls[1] = <<>>
  /\ \A c \in ConnIds : conn[c].st = "free"

\* C29: panics of ListenAndServe and of r.onError reach the deferred
\* function, which calls r.onPanic; a panic r.onPanic raises there is not
\* recovered: the step in which r.onPanic is called and panics ends the
\* goroutine with the panic and, with it, the process, and r.onPanic is not
\* called for it again.  The goroutine is left by a panic in no other way.
C29_SinkPanicPropagates ==
  /\ [](\A i \in RunIds :
          gpc[i] = "crashed" =>
            /\ proc = "crashed"
            /\ r.onPanic = "func"
            /\ rvr[i] \in {ServePanic} \cup {PanicOf(e) : e \in {ErrBind, ErrAccept}}
            /\ panicCalls[i] = <<[ctx |-> i, rvr |-> rvr[i]]>>)
  /\ [][\A i \in RunIds :
          /\ Recover(i, TRUE) =>
               /\ gpc'[i] = "crashed" /\ proc' = "crashed"
               /\ Len(panicCalls'[i]) = Len(panicCalls[i]) + 1
          /\ (gpc[i] # "crashed" /\ gpc'[i] = "crashed") =>
               gpc[i] = "recover" /\ Recover(i, TRUE)
          /\ (gpc[i] \in {"serve", "onError"} /\ rvr'[i] # rvr[i]) =>
               gpc'[i] = "recover" /\ proc' = "alive"]_vars

\* C29 witness: r.onError panicked on the bind failure, the panic was
\* recovered and handed to r.onPanic, which panicked in turn: the process is
\* gone
C29_Witness ==
  \E i \in RunIds :
    /\ gpc[i] = "crashed" /\ proc = "crashed"
    /\ errCalls[i] = <<[ctx |-> i, err |-> ErrBind]>>
    /\ panicCalls[i] = <<[ctx |-> i, rvr |-> PanicOf(ErrBind)]>>

\* C30: once Shutdown was invoked, the goroutine of a Run that was called
\* ends (as long as the process lives).  Its end changes nothing of the
\* Shutdown in progress, which may still be waiting on requests; Shutdown
\* returns only from a round that found no tracked connection or, with the
\* deadline error, when its deadline passed.
C30_UnitTerminates ==
  /\ \A i \in RunIds :
       (inShutdown /\ gpc[i] # "none") ~> (Finished(i) \/ proc = "crashed")
  /\ [][/\ (\E i \in RunIds : ~Finished(i) /\ Finished(i)') =>
             UNCHANGED <<sd, sdRet>>
        /\ Returns =>
             \/ Returned = Nil /\ Quiescent(conn')
             \/ Returned = DeadlineExceeded /\ HasDeadline(sd.timeout)
        /\ (Returns /\ ~Quiescent(conn')) => Returned = DeadlineExceeded]_vars

\* C30 witness: the goroutine ended on ErrServerClosed while Shutdown is still
\* polling, a request in flight not yet answered in full
C30_Witness ==
  /\ sd.pc = "poll" /\ sdRet = <<>>
  /\ \E i \in RunIds :
       gpc[i] = "done" /\ srvErr[i] = ErrServerClosed /\ errCalls[i] = <<>>
  /\ \E c \in ConnIds :
       conn[c].st = "active" /\ conn[c].atSd /\ conn[c].sent < conn[c].total

=============================================================================
